---- MODULE Spec2Model ----
(***************************************************************************)
(* Model of llm_osint: the DOM-aware chunker of link_scraping.py           *)
(* (_element_to_text, _chunk_element, _merge_text_chunks,                  *)
(* chunk_and_strip_html), its fetcher scrape_text, and the result          *)
(* normalisation of tools/search.py.                                       *)
(*                                                                         *)
(* A Python str is a sequence of one-character strings, so that len, +,    *)
(* strip, splitlines, split and join are computed and not assumed.         *)
(***************************************************************************)
EXTENDS Integers, Sequences, FiniteSets, TLC

VARIABLES
    pc,          \* which operation has been applied to the inputs
    element,     \* the DOM element (a parsed tree) handed to the chunker
    max_size,    \* the chunk budget
    hashOrder,   \* iteration order of this process's str sets (list(set(links)))
    links,       \* _element_to_text's local `links`, as joined into the text
    text,        \* result of _element_to_text
    chunks,      \* result of _chunk_element
    merged,      \* result of chunk_and_strip_html
    vals,        \* input of _merge_text_chunks
    once,        \* _merge_text_chunks(vals, max_size)
    twice,       \* _merge_text_chunks(once, max_size)
    url,         \* scrape_text: the url of the call in progress
    retries0,    \* scrape_text: `retries` of the caller's call
    retries,     \* scrape_text: `retries` of the innermost frame
    gets,        \* scrape_text: opener.open calls made for the caller's call
    okGets,      \* scrape_text: how many of them succeeded
    lastErr,     \* scrape_text: the exception of the latest failed open
    raised,      \* scrape_text: the exception the caller sees
    cache,       \* cache_func: the keys with a stored result
    results,     \* search: the response dictionary
    k,           \* search: the wrapper's k
    parsed       \* search: what _parse_results returned or raised

vars == <<pc, element, max_size, hashOrder, links, text, chunks, merged,
          vals, once, twice, url, retries0, retries, gets, okGets, lastErr,
          raised, cache, results, k, parsed>>

chunkVars  == <<element, max_size, hashOrder, links, text, chunks, merged>>
mergeVars  == <<vals, once, twice>>
fetchVars  == <<url, retries0, retries, gets, okGets, lastErr, raised, cache>>
searchVars == <<results, k, parsed>>

(***************************************************************************)
(* Bounds of the model.                                                    *)
(***************************************************************************)
MaxNodes == 4       \* nodes (tags and strings) of a document tree
MaxSize == 13       \* largest chunk budget tried by the chunker
MaxAnchors == 3     \* anchors below the element whose links are extracted
MaxVals == 3        \* chunks handed to the merger
MaxMergeSize == 5   \* largest budget tried by the merger
MaxRetries == 2     \* largest `retries` a caller passes
MaxK == 2           \* largest k of the search wrapper
MaxOrganic == 2     \* organic results of a response

(***************************************************************************)
(* Python str operations.                                                  *)
(***************************************************************************)
NL == "\n"
SP == " "

Rep(c, n) == [i \in 1..n |-> c]

RECURSIVE Concat(_)
Concat(ss) == IF ss = <<>> THEN <<>> ELSE Head(ss) \o Concat(Tail(ss))

RECURSIVE Join(_, _)
Join(sep, parts) ==
    IF parts = <<>> THEN <<>>
    ELSE IF Len(parts) = 1 THEN parts[1]
    ELSE parts[1] \o sep \o Join(sep, Tail(parts))

IsSpace(c) == c \in {SP, NL}

RECURSIVE LStrip(_)
LStrip(s) == IF s # <<>> /\ IsSpace(Head(s)) THEN LStrip(Tail(s)) ELSE s

RECURSIVE RStrip(_)
RStrip(s) ==
    IF s # <<>> /\ IsSpace(s[Len(s)]) THEN RStrip(SubSeq(s, 1, Len(s) - 1)) ELSE s

Strip(s) == RStrip(LStrip(s))

\* str.split(sep) for a non-empty separator: leftmost, non-overlapping.
RECURSIVE Split(_, _)
Split(s, sep) ==
    LET n == Len(sep)
        hits == {i \in 1..(Len(s) - n + 1) : SubSeq(s, i, i + n - 1) = sep}
    IN  IF hits = {} THEN <<s>>
        ELSE LET i == CHOOSE h \in hits : \A g \in hits : h <= g
             IN  <<SubSeq(s, 1, i - 1)>> \o Split(SubSeq(s, i + n, Len(s)), sep)

\* str.splitlines(): no line for the empty remainder after a final newline.
SplitLines(s) ==
    LET ps == Split(s, <<NL>>)
    IN  IF ps[Len(ps)] = <<>> THEN SubSeq(ps, 1, Len(ps) - 1) ELSE ps

NonEmpty(s) == s # <<>>

\* All enumerations of a finite set: the orders list(set(...)) can produce.
Perms(S) ==
    {p \in [1..Cardinality(S) -> S] : \A i, j \in DOMAIN p : p[i] = p[j] => i = j}

(***************************************************************************)
(* The parsed document (BeautifulSoup's tree).  A node is a Tag, with its  *)
(* name, its href attribute (<<>> when absent, <<h>> when present) and its *)
(* contents in document order, or a NavigableString, with its text.        *)
(***************************************************************************)
Tag(name, href, kids) == [tag |-> name, href |-> href, text |-> <<>>, kids |-> kids]
NavigableString(s) == [tag |-> "#text", href |-> <<>>, text |-> s, kids |-> <<>>]

IsTag(n) == n.tag # "#text"

\* element.get_text(): the strings below the element, in document order.
RECURSIVE get_text(_)
get_text(n) ==
    IF ~IsTag(n) THEN n.text
    ELSE Concat([i \in 1..Len(n.kids) |-> get_text(n.kids[i])])

\* element.find_all("a", href=True): the descendant anchors that carry an href.
RECURSIVE find_all_a_href(_)
find_all_a_href(n) ==
    Concat([i \in 1..Len(n.kids) |->
              (IF n.kids[i].tag = "a" /\ n.kids[i].href # <<>>
               THEN <<n.kids[i]>> ELSE <<>>)
              \o find_all_a_href(n.kids[i])])

\* element.findChildren(recursive=False): the direct child Tags.
findChildren(n) == SelectSeq(n.kids, IsTag)

\* soup(["script", "style"]) then extract(): the tree without those subtrees.
RECURSIVE ExtractScripts(_)
ExtractScripts(n) ==
    LET keep == SelectSeq(n.kids, LAMBDA c : c.tag \notin {"script", "style"})
    IN  [n EXCEPT !.kids = [i \in 1..Len(keep) |-> ExtractScripts(keep[i])]]

\* BeautifulSoup(raw_html): the document object above the top-level node.
BeautifulSoup(top) == Tag("[document]", <<>>, <<top>>)

(***************************************************************************)
(* link_scraping.py                                                        *)
(***************************************************************************)
MAX_LINK_LEN == 120

LinksMarker == <<NL, NL, "L", "i", "n", "k", "s", ":", SP>>

\* Lines 44-47: the normalised visible text.
VisibleText(elem) ==
    LET elem_text == get_text(elem)
        raw == SplitLines(elem_text)
        lines == [i \in 1..Len(raw) |-> Strip(raw[i])]
        phrases(line) == LET ps == Split(line, <<SP, SP>>)
                         IN  [j \in 1..Len(ps) |-> Strip(ps[j])]
        parts == Concat([i \in 1..Len(lines) |-> phrases(lines[i])])
    IN  Join(<<NL>>, SelectSeq(parts, NonEmpty))

\* ElementLinks with the length test strict: a link of exactly MAX_LINK_LEN is lost.
ElementLinksStrict(elem) ==
    LET as == find_all_a_href(elem)
        hrefs == [i \in 1..Len(as) |-> as[i].href[1]]
    IN  SelectSeq(hrefs, LAMBDA h : Len(h) < MAX_LINK_LEN)

\* Lines 49-52: the hrefs kept, one entry per anchor.
ElementLinks(elem) ==
    LET as == find_all_a_href(elem)
        hrefs == [i \in 1..Len(as) |-> as[i].href[1]]
    IN  SelectSeq(hrefs, LAMBDA h : Len(h) <= MAX_LINK_LEN)

\* Line 54, list(set(links)): one entry per distinct link, in set order.
SetToList(ls) ==
    SelectSeq(hashOrder, LAMBDA h : \E i \in 1..Len(ls) : ls[i] = h)

\* Lines 43-54.
_element_to_text(elem) ==
    VisibleText(elem) \o LinksMarker \o Join(<<SP>>, SetToList(ElementLinks(elem)))

\* _chunk_element measuring the visible text alone, without the links section.
RECURSIVE ChunkElementVisibleOnly(_, _)
ChunkElementVisibleOnly(elem, size) ==
    LET t == _element_to_text(elem)
    IN  IF Len(t) = 0 THEN <<>>
        ELSE IF Len(VisibleText(elem)) <= size THEN <<t>>
        ELSE LET children == findChildren(elem)
             IN  Concat([i \in 1..Len(children) |->
                           ChunkElementVisibleOnly(children[i], size)])

\* _chunk_element extending the chunks of each child in front of the earlier ones.
RECURSIVE ChunkElementPrepend(_, _)
ChunkElementPrepend(elem, size) ==
    LET t == _element_to_text(elem)
    IN  IF Len(t) = 0 THEN <<>>
        ELSE IF Len(t) <= size THEN <<t>>
        ELSE LET children == findChildren(elem)
                 n == Len(children)
             IN  Concat([i \in 1..n |-> ChunkElementPrepend(children[n + 1 - i], size)])

\* Lines 57-67.
RECURSIVE _chunk_element(_, _)
_chunk_element(elem, size) ==
    LET t == _element_to_text(elem)
    IN  IF Len(t) = 0 THEN <<>>
        ELSE IF Len(t) <= size THEN <<t>>
        ELSE LET children == findChildren(elem)
             IN  Concat([i \in 1..Len(children) |-> _chunk_element(children[i], size)])

\* MergeStep with the budget test strict: an exact fit is not merged.
MergeStepStrict(acc, s, size) ==
    IF Len(acc.current_string) + Len(s) < size
    THEN [acc EXCEPT !.current_string = @ \o s]
    ELSE [combined_strings |-> Append(acc.combined_strings, acc.current_string),
          current_string |-> s]

\* MergeStep that flushes and restarts empty: the chunk that did not fit is lost.
MergeStepDrop(acc, s, size) ==
    IF Len(acc.current_string) + Len(s) <= size
    THEN [acc EXCEPT !.current_string = @ \o s]
    ELSE [combined_strings |-> Append(acc.combined_strings, acc.current_string),
          current_string |-> <<>>]

\* Lines 74-79: one iteration of the loop; acc is (combined_strings, current_string).
MergeStep(acc, s, size) ==
    IF Len(acc.current_string) + Len(s) <= size
    THEN [acc EXCEPT !.current_string = @ \o s]
    ELSE [combined_strings |-> Append(acc.combined_strings, acc.current_string),
          current_string |-> s]

RECURSIVE MergeLoop(_, _, _)
MergeLoop(acc, vs, size) ==
    IF vs = <<>> THEN acc ELSE MergeLoop(MergeStep(acc, Head(vs), size), Tail(vs), size)

\* Lines 81-84: the final flush and the result.
MergeFlush(acc) ==
    IF acc.current_string # <<>>
    THEN Append(acc.combined_strings, acc.current_string)
    ELSE acc.combined_strings

\* Lines 70-84.
_merge_text_chunks(vs, size) ==
    MergeFlush(MergeLoop([combined_strings |-> <<>>, current_string |-> <<>>], vs, size))

\* Lines 87-95.
chunk_and_strip_html(raw_html, size) ==
    _merge_text_chunks(_chunk_element(ExtractScripts(BeautifulSoup(raw_html)), size), size)

(***************************************************************************)
(* Inputs.                                                                 *)
(***************************************************************************)
\* Trees of exactly n nodes, and sequences of trees of n nodes in all, whose
\* Tags take their (name, href) from heads and whose strings come from strs.
RECURSIVE TreesOf(_, _, _), ForestsOf(_, _, _)
TreesOf(n, heads, strs) ==
    IF n = 1
    THEN {NavigableString(t) : t \in strs} \cup {Tag(h[1], h[2], <<>>) : h \in heads}
    ELSE {Tag(h[1], h[2], f) : h \in heads, f \in ForestsOf(n - 1, heads, strs)}
ForestsOf(n, heads, strs) ==
    IF n = 0 THEN {<<>>}
    ELSE UNION {{<<t>> \o f : t \in TreesOf(j, heads, strs),
                             f \in ForestsOf(n - j, heads, strs)} : j \in 1..n}

\* The documents given to the chunker.
ChunkHref == <<"/", "x">>
ChunkHeads == {<<"div", <<>>>>, <<"a", <<ChunkHref>>>>, <<"script", <<>>>>}
ChunkStrs == {<<SP, NL>>, <<"a", "b">>, <<"a", SP, SP, "b">>}
ChunkElements ==
    {t \in UNION {TreesOf(n, ChunkHeads, ChunkStrs) : n \in 1..MaxNodes} : IsTag(t)}
\* Every extracted text holds the marker, so no budget below its length differs
\* from 0.
ChunkSizes == {0} \cup ((Len(LinksMarker) - 1)..MaxSize)

\* The elements whose links are extracted: anchors, nested or not, below a div.
LinkHrefs == {Rep("a", 10), Rep("a", MAX_LINK_LEN), Rep("a", MAX_LINK_LEN + 1),
              Rep("a", 200)}
LinkHeads == {<<"a", <<h>>>> : h \in LinkHrefs} \cup {<<"a", <<>>>>}
LinkElements ==
    {Tag("div", <<>>, f) : f \in UNION {ForestsOf(n, LinkHeads, {}) : n \in 0..MaxAnchors}}

\* The chunk sequences given to the merger.
MergeStrs == {<<>>, <<"a">>, <<"a", "b">>, <<"c", "d">>, <<"e", "f">>,
              <<"a", "b", "c", "d", "e">>}
MergeVals == UNION {[1..n -> MergeStrs] : n \in 0..MaxVals}

ChunkIdle ==
    /\ element = Tag("div", <<>>, <<>>) /\ hashOrder = <<>>
    /\ links = <<>> /\ text = <<>> /\ chunks = <<>> /\ merged = <<>>
MergeIdle == vals = <<>> /\ once = <<>> /\ twice = <<>>
FetchIdle ==
    /\ url = "" /\ retries0 = 0 /\ retries = 0 /\ gets = 0 /\ okGets = 0
    /\ lastErr = "" /\ raised = "" /\ cache = {}
SearchIdle == results = <<>> /\ k = 0 /\ parsed = <<>>

(***************************************************************************)
(* The chunker.                                                            *)
(***************************************************************************)
InitChunk ==
    /\ pc = "element"
    /\ element \in ChunkElements
    /\ max_size \in ChunkSizes
    /\ hashOrder \in Perms({ChunkHref})
    /\ links = <<>> /\ text = <<>> /\ chunks = <<>> /\ merged = <<>>
    /\ MergeIdle /\ FetchIdle /\ SearchIdle

\* _chunk_element(element, max_size)
ChunkElement ==
    /\ pc = "element"
    /\ pc' = "chunked"
    /\ chunks' = _chunk_element(element, max_size)
    /\ UNCHANGED <<element, max_size, hashOrder, links, text, merged>>
    /\ UNCHANGED <<mergeVars, fetchVars, searchVars>>

\* chunk_and_strip_html(raw_html, max_size), raw_html being element's markup
ChunkAndStripHtml ==
    /\ pc = "element"
    /\ pc' = "piped"
    /\ merged' = chunk_and_strip_html(element, max_size)
    /\ UNCHANGED <<element, max_size, hashOrder, links, text, chunks>>
    /\ UNCHANGED <<mergeVars, fetchVars, searchVars>>

NextChunk == ChunkElement \/ ChunkAndStripHtml

SpecChunk == InitChunk /\ [][NextChunk]_vars

(***************************************************************************)
(* The link extractor.                                                     *)
(***************************************************************************)
InitLinks ==
    /\ pc = "anchors"
    /\ element \in LinkElements
    /\ max_size = 0
    /\ hashOrder \in Perms(LinkHrefs)
    /\ links = <<>> /\ text = <<>> /\ chunks = <<>> /\ merged = <<>>
    /\ MergeIdle /\ FetchIdle /\ SearchIdle

\* _element_to_text(element)
ElementToText ==
    /\ pc = "anchors"
    /\ pc' = "text"
    /\ links' = SetToList(ElementLinks(element))
    /\ text' = _element_to_text(element)
    /\ UNCHANGED <<element, max_size, hashOrder, chunks, merged>>
    /\ UNCHANGED <<mergeVars, fetchVars, searchVars>>

NextLinks == ElementToText

SpecLinks == InitLinks /\ [][NextLinks]_vars

(***************************************************************************)
(* The merger.                                                             *)
(***************************************************************************)
InitMerge ==
    /\ pc = "vals"
    /\ vals \in MergeVals
    /\ max_size \in 0..MaxMergeSize
    /\ once = <<>> /\ twice = <<>>
    /\ ChunkIdle /\ FetchIdle /\ SearchIdle

\* _merge_text_chunks(vals, max_size)
MergeTextChunks ==
    /\ pc = "vals"
    /\ pc' = "merged"
    /\ once' = _merge_text_chunks(vals, max_size)
    /\ UNCHANGED <<vals, twice, max_size>>
    /\ UNCHANGED <<element, hashOrder, links, text, chunks, merged, fetchVars, searchVars>>

\* _merge_text_chunks run again on its own result
MergeAgain ==
    /\ pc = "merged"
    /\ pc' = "remerged"
    /\ twice' = _merge_text_chunks(once, max_size)
    /\ UNCHANGED <<vals, once, max_size>>
    /\ UNCHANGED <<element, hashOrder, links, text, chunks, merged, fetchVars, searchVars>>

NextMerge == MergeTextChunks \/ MergeAgain

SpecMerge == InitMerge /\ [][NextMerge]_vars

(***************************************************************************)
(* The fetcher: scrape_text under cache_func.  A call by the caller runs   *)
(* the decorated function; each action below is one invocation of it, on   *)
(* the frame whose `retries` is the variable retries.  A frame that        *)
(* returns hands its value to the frames above it, which return it too;    *)
(* a frame that raises unwinds them.                                       *)
(***************************************************************************)
Urls == {"u1", "u2"}
OpenErrors == {"URLError", "HTTPError"}
DecodeError == "UnicodeDecodeError"

\* cache_func: the key of a call, and the keys stored when the frame with
\* `retries` = r returns a value through the frames above it.
CacheKey(u, r) == <<u, r>>
CacheHas(u, r) == CacheKey(u, r) \in cache
CacheStore(u, r) == cache \cup {CacheKey(u, q) : q \in r..retries0}

\* The retry test with the last retry forgotten.
ShouldRetryButLast(r) == r > 1

\* Line 34.
ShouldRetry(r) == r > 0

InitFetch ==
    /\ pc = "idle"
    /\ FetchIdle
    /\ max_size = 0 /\ ChunkIdle /\ MergeIdle /\ SearchIdle

\* The caller calls scrape_text(u, retries=r).
ScrapeText(u, r) ==
    /\ pc \in {"idle", "returned", "raised"}
    /\ pc' = "called"
    /\ url' = u /\ retries0' = r /\ retries' = r
    /\ gets' = 0 /\ okGets' = 0 /\ lastErr' = "" /\ raised' = ""
    /\ UNCHANGED cache
    /\ UNCHANGED <<chunkVars, mergeVars, searchVars>>

\* cache_func finds a result stored for the frame's arguments.
CacheHit ==
    /\ pc = "called"
    /\ CacheHas(url, retries)
    /\ pc' = "returned"
    /\ cache' = CacheStore(url, retries)
    /\ UNCHANGED <<url, retries0, retries, gets, okGets, lastErr, raised>>
    /\ UNCHANGED <<chunkVars, mergeVars, searchVars>>

\* Lines 30-31 and 39: the open and the decoding succeed.
OpenOk ==
    /\ pc = "called"
    /\ ~CacheHas(url, retries)
    /\ pc' = "returned"
    /\ gets' = gets + 1 /\ okGets' = okGets + 1
    /\ cache' = CacheStore(url, retries)
    /\ UNCHANGED <<url, retries0, retries, lastErr, raised>>
    /\ UNCHANGED <<chunkVars, mergeVars, searchVars>>

\* Lines 32-35: the open fails (or its body does not decode) and the frame calls
\* scrape_text(url, retries=retries - 1).
OpenFailRetry(e) ==
    /\ pc = "called"
    /\ ~CacheHas(url, retries)
    /\ ShouldRetry(retries)
    /\ gets' = gets + 1
    /\ okGets' = okGets + (IF e = DecodeError THEN 1 ELSE 0)
    /\ lastErr' = e
    /\ retries' = retries - 1
    /\ UNCHANGED <<pc, url, retries0, raised, cache>>
    /\ UNCHANGED <<chunkVars, mergeVars, searchVars>>

\* Lines 32-37: the open fails (or its body does not decode) and the frame
\* raises e.
OpenFailRaise(e) ==
    /\ pc = "called"
    /\ ~CacheHas(url, retries)
    /\ ~ShouldRetry(retries)
    /\ pc' = "raised"
    /\ gets' = gets + 1
    /\ okGets' = okGets + (IF e = DecodeError THEN 1 ELSE 0)
    /\ lastErr' = e
    /\ raised' = e
    /\ UNCHANGED <<url, retries0, retries, cache>>
    /\ UNCHANGED <<chunkVars, mergeVars, searchVars>>

NextFetch ==
    \/ \E u \in Urls, r \in 0..MaxRetries : ScrapeText(u, r)
    \/ CacheHit
    \/ OpenOk
    \/ \E e \in OpenErrors \cup {DecodeError} : OpenFailRetry(e)
    \/ \E e \in OpenErrors \cup {DecodeError} : OpenFailRaise(e)

SpecFetch == InitFetch /\ [][NextFetch]_vars

\* The caller's call has ended.
FetchDone == pc \in {"returned", "raised"}

\* The frames of the call that were answered: retries0 down to retries.  The
\* call met no stored result when it made a GET in each of them.
NoCacheHit == gets = retries0 - retries + 1

\* C6 as claimed: a call all of whose GETs (one at least) fail makes
\* retries + 1 GETs and then raises the error of the GET, as it is; with
\* retries = 0 that is one GET and no retry.
FailingFetchExhaustsRetries ==
    (FetchDone /\ gets >= 1 /\ okGets = 0)
    => (pc = "raised" /\ gets = retries0 + 1 /\ raised = lastErr)

\* C6, amended: a call all of whose GETs fail and none of whose frames is
\* answered from the cache makes retries + 1 GETs and then raises the error of
\* the last GET, as it is; with retries = 0 that is one GET and no retry.
UncachedFailingFetchExhaustsRetries ==
    (FetchDone /\ okGets = 0 /\ NoCacheHit)
    => (/\ pc = "raised" /\ gets = retries0 + 1 /\ raised = lastErr
        /\ retries0 = 0 => gets = 1)

\* A call with retries = 2 has failed three times and raised.
UncachedFailingFetchWitness ==
    /\ pc = "raised" /\ retries0 = 2 /\ gets = 3 /\ okGets = 0
    /\ raised \in OpenErrors

(***************************************************************************)
(* tools/search.py: the normalisation of a response.  A dict is a record   *)
(* of its possible keys, each <<>> when the key is absent and <<v>> when   *)
(* it holds v; a str is a sequence of tokens; a dict's items() are a       *)
(* sequence of <<key, value>> in insertion order.                          *)
(***************************************************************************)
Has(d, key) == d[key] # <<>>
Value(d, key) == d[key][1]
IsEmptyDict(d) == \A key \in DOMAIN d : d[key] = <<>>
\* d.get(key) is truthy, for a str or a list, and for a dict.
Truthy(d, key) == Has(d, key) /\ Value(d, key) # <<>>
TruthyDict(d, key) == Has(d, key) /\ ~IsEmptyDict(Value(d, key))
\* f"{d.get(key)}"
Format(d, key) == IF Has(d, key) THEN Value(d, key) ELSE <<"None">>
\* d.get("attributes", {}).items()
Attributes(d) == IF Has(d, "attributes") THEN Value(d, "attributes") ELSE <<>>
\* s.replace(old, new), old being one token
Replace(str, old, new) == [i \in 1..Len(str) |-> IF str[i] = old THEN new ELSE str[i]]
\* vs[:n]
Take(vs, n) == SubSeq(vs, 1, IF n < Len(vs) THEN n ELSE Len(vs))

Return(v) == [kind |-> "return", value |-> v]
Raise(key) == [kind |-> "raise", value |-> <<"KeyError", key>>]

\* Lines 109-120: the snippets of one organic result (BrightData).
BrightDataOrganicSnippets(result) ==
    (IF Truthy(result, "snippet") THEN <<Value(result, "snippet")>> ELSE <<>>)
    \o (IF Truthy(result, "title")
        THEN <<<<"Title: ">> \o Value(result, "title")>> ELSE <<>>)
    \o (IF Truthy(result, "link") THEN <<<<"URL: ">> \o Value(result, "link")>> ELSE <<>>)

\* Lines 93-138.
BrightData_parse_snippets(res, limit) ==
    LET kg == IF Has(res, "knowledgeGraph") THEN Value(res, "knowledgeGraph") ELSE <<>>
        kgSnippets ==
            IF TruthyDict(res, "knowledgeGraph")
            THEN <<<<"Knowledge Graph: ">> \o Format(kg, "title") \o <<" (">>
                     \o Format(kg, "type") \o <<") - ">> \o Format(kg, "description")>>
                 \o [i \in 1..Len(Attributes(kg)) |->
                        Attributes(kg)[i][1] \o <<": ">> \o Attributes(kg)[i][2]]
            ELSE <<>>
        organic == Take(IF Has(res, "organic") THEN Value(res, "organic") ELSE <<>>, limit)
        paa == IF Has(res, "peopleAlsoAsk") THEN Value(res, "peopleAlsoAsk") ELSE <<>>
        rs == IF Has(res, "relatedSearches") THEN Value(res, "relatedSearches") ELSE <<>>
        snippets ==
            kgSnippets
            \o Concat([i \in 1..Len(organic) |-> BrightDataOrganicSnippets(organic[i])])
            \o [i \in 1..Len(paa) |->
                   <<"People Also Ask: ">> \o Format(paa[i], "question") \o <<" - ">>
                       \o Format(paa[i], "snippet")]
            \o [i \in 1..Len(rs) |-> <<"Related Search: ">> \o Format(rs[i], "query")]
    IN  IF Len(snippets) = 0 THEN <<<<"No good search result was found">>>> ELSE snippets

\* Lines 140-141.
BrightData_parse_results(res, limit) ==
    Return(Join(<<SP>>, BrightData_parse_snippets(res, limit)))

\* Lines 174-177: the snippets of one organic result, or the KeyError of the
\* first subscript that fails.
GoogleOrganicSnippets(result) ==
    LET attrs == Attributes(result)
    IN  IF Has(result, "snippet") /\ ~Has(result, "title") THEN Raise("title")
        ELSE IF Has(result, "snippet") /\ ~Has(result, "link") THEN Raise("link")
        ELSE IF attrs # <<>> /\ ~Has(result, "title") THEN Raise("title")
        ELSE Return(
              (IF Has(result, "snippet")
               THEN <<Value(result, "title") \o <<": ">> \o Value(result, "snippet")
                        \o <<" (link ">> \o Value(result, "link") \o <<")">>>>
               ELSE <<>>)
              \o [i \in 1..Len(attrs) |->
                     Value(result, "title") \o <<": ">> \o attrs[i][1] \o <<" = ">>
                         \o attrs[i][2] \o <<".">>])

\* Lines 173-177: the loop, from snippets on; it stops at the first KeyError.
RECURSIVE GoogleOrganicLoop(_, _)
GoogleOrganicLoop(snippets, organic) ==
    IF organic = <<>> THEN Return(snippets)
    ELSE LET one == GoogleOrganicSnippets(Head(organic))
         IN  IF one.kind = "raise" THEN one
             ELSE GoogleOrganicLoop(snippets \o one.value, Tail(organic))

\* Lines 149-182.
Google_parse_results(res, limit) ==
    LET answer_box == Value(res, "answerBox")
        kg == Value(res, "knowledgeGraph")
        kgSnippets ==
            IF TruthyDict(res, "knowledgeGraph")
            THEN (IF Truthy(kg, "type")
                  THEN <<Format(kg, "title") \o <<": ">> \o Value(kg, "type") \o <<".">>>>
                  ELSE <<>>)
                 \o (IF Truthy(kg, "description") THEN <<Value(kg, "description")>> ELSE <<>>)
                 \o [i \in 1..Len(Attributes(kg)) |->
                        Format(kg, "title") \o <<SP>> \o Attributes(kg)[i][1] \o <<": ">>
                            \o Attributes(kg)[i][2] \o <<".">>]
            ELSE <<>>
    IN  IF TruthyDict(res, "answerBox") /\ Truthy(answer_box, "answer")
        THEN Return(Value(answer_box, "answer"))
        ELSE IF TruthyDict(res, "answerBox") /\ Truthy(answer_box, "snippet")
        THEN Return(Replace(Value(answer_box, "snippet"), NL, SP))
        ELSE IF TruthyDict(res, "answerBox") /\ Truthy(answer_box, "snippetHighlighted")
        THEN Return(Join(<<", ">>, Value(answer_box, "snippetHighlighted")))
        ELSE IF ~Has(res, "organic") THEN Raise("organic")
        ELSE LET looped == GoogleOrganicLoop(kgSnippets, Take(Value(res, "organic"), limit))
             IN  IF looped.kind = "raise" THEN looped
                 ELSE IF Len(looped.value) = 0 THEN Return(<<"No good results found">>)
                 ELSE Return(Join(<<NL, NL>>, looped.value))

\* The responses.
Opt(S) == {<<>>} \cup {<<v>> : v \in S}
OrganicResult(title, snippet, link, attributes) ==
    [title |-> title, snippet |-> snippet, link |-> link, attributes |-> attributes]
OrganicResults ==
    {OrganicResult(<<<<"T">>>>, <<<<"S">>>>, <<<<"L">>>>, <<>>),
     OrganicResult(<<<<"T">>>>, <<>>, <<<<"L">>>>, <<>>),
     OrganicResult(<<>>, <<<<"S">>>>, <<>>, <<>>),
     OrganicResult(<<<<"T">>>>, <<>>, <<>>, << << <<<<"A">>, <<"V">>>> >> >>)}
AnswerBox(answer, snippet, highlighted, title) ==
    [answer |-> answer, snippet |-> snippet, snippetHighlighted |-> highlighted,
     title |-> title]
AnswerBoxes ==
    {AnswerBox(<<>>, <<>>, <<>>, <<>>),
     AnswerBox(<<<<"42">>>>, <<>>, <<>>, <<>>),
     AnswerBox(<<>>, <<<<"S1", NL, "S2">>>>, <<>>, <<>>),
     AnswerBox(<<>>, <<>>, << << <<"H1">>, <<"H2">> >> >>, <<>>),
     AnswerBox(<<>>, <<>>, <<>>, <<<<"T">>>>)}
KnowledgeGraph(title, type, description, attributes) ==
    [title |-> title, type |-> type, description |-> description,
     attributes |-> attributes]
KnowledgeGraphs ==
    {KnowledgeGraph(<<>>, <<>>, <<>>, <<>>),
     KnowledgeGraph(<<<<"K">>>>, <<<<"Y">>>>, <<<<"D">>>>, <<>>),
     KnowledgeGraph(<<<<"K">>>>, <<>>, <<>>, <<>>),
     KnowledgeGraph(<<>>, <<>>, <<<<"D">>>>, << << <<<<"A">>, <<"V">>>> >> >>)}
Responses ==
    [answerBox : Opt(AnswerBoxes),
     knowledgeGraph : Opt(KnowledgeGraphs),
     organic : Opt(UNION {[1..n -> OrganicResults] : n \in 0..MaxOrganic}),
     peopleAlsoAsk : Opt({<<[question |-> <<<<"Q">>>>, snippet |-> <<<<"S">>>>]>>}),
     relatedSearches : Opt({<<[query |-> <<<<"R">>>>]>>})]

InitSearch ==
    /\ pc = "response"
    /\ results \in Responses
    /\ k \in 0..MaxK
    /\ parsed = <<>>
    /\ max_size = 0 /\ ChunkIdle /\ MergeIdle /\ FetchIdle

\* GoogleSerperSearchWrapper._parse_results(results)
GoogleParseResults ==
    /\ pc = "response"
    /\ pc' = "google"
    /\ parsed' = Google_parse_results(results, k)
    /\ UNCHANGED <<results, k, chunkVars, mergeVars, fetchVars>>

\* BrightDataSerperAPIWrapper._parse_results(results)
BrightDataParseResults ==
    /\ pc = "response"
    /\ pc' = "brightdata"
    /\ parsed' = BrightData_parse_results(results, k)
    /\ UNCHANGED <<results, k, chunkVars, mergeVars, fetchVars>>

NextSearch == GoogleParseResults \/ BrightDataParseResults

SpecSearch == InitSearch /\ [][NextSearch]_vars

\* C7: a response without the keys organic, answerBox and knowledgeGraph is
\* normalised, without an exception, to "No good results found" by
\* GoogleSerperSearchWrapper and to "No good search result was found" by
\* BrightDataSerperAPIWrapper.
SearchFallback ==
    (/\ pc \in {"google", "brightdata"}
     /\ ~Has(results, "organic")
     /\ ~Has(results, "answerBox")
     /\ ~Has(results, "knowledgeGraph"))
    => parsed = Return(IF pc = "google" THEN <<"No good results found">>
                       ELSE <<"No good search result was found">>)

(***************************************************************************)
(* The chunker and the merger together, for the properties that span both. *)
(***************************************************************************)
InitOrder == InitChunk \/ InitMerge
NextOrder == NextChunk \/ NextMerge
SpecOrder == InitOrder /\ [][NextOrder]_vars

(***************************************************************************)
(* Positions in a document: a path is the sequence of child indices from   *)
(* the root; document (pre-)order is prefix first, then leftmost first.    *)
(***************************************************************************)
RECURSIVE NodeAt(_, _)
NodeAt(n, p) == IF p = <<>> THEN n ELSE NodeAt(n.kids[Head(p)], Tail(p))

RECURSIVE PathsOf(_)
PathsOf(n) ==
    {<<>>} \cup UNION {{<<i>> \o p : p \in PathsOf(n.kids[i])} : i \in 1..Len(n.kids)}

IsProperPrefix(p, q) == Len(p) < Len(q) /\ SubSeq(q, 1, Len(p)) = p

Before(p, q) ==
    \/ IsProperPrefix(p, q)
    \/ \E i \in 1..Len(p) :
          /\ i <= Len(q)
          /\ SubSeq(p, 1, i - 1) = SubSeq(q, 1, i - 1)
          /\ p[i] < q[i]

TagPaths(root) == {p \in PathsOf(root) : IsTag(NodeAt(root, p))}

\* The Tags whose text fits the budget while that of every Tag above them does not.
FittingPaths(root) ==
    {p \in TagPaths(root) :
        /\ Len(_element_to_text(NodeAt(root, p))) <= max_size
        /\ \A q \in TagPaths(root) :
              IsProperPrefix(q, p) => Len(_element_to_text(NodeAt(root, q))) > max_size}

\* The texts of the Tags at paths ps, listed in document order.
TextsInDocumentOrder(root, ps) ==
    [i \in 1..Cardinality(ps) |->
        LET p == CHOOSE q \in ps : Cardinality({r \in ps : Before(r, q)}) = i - 1
        IN  _element_to_text(NodeAt(root, p))]

Soup == ExtractScripts(BeautifulSoup(element))

\* c is the text of a Tag of root without child Tags, and exceeds the budget.
Irreducible(c, root) ==
    \E p \in TagPaths(root) :
        LET e == NodeAt(root, p)
        IN  findChildren(e) = <<>> /\ _element_to_text(e) = c /\ Len(c) > max_size

(***************************************************************************)
(* Properties of the chunker.                                              *)
(***************************************************************************)
\* C1: every chunk of _chunk_element, and every chunk of chunk_and_strip_html,
\* is at most max_size long or is the text of a childless element that alone
\* exceeds max_size.
SizeContract ==
    /\ pc = "chunked" =>
          \A i \in 1..Len(chunks) :
              Len(chunks[i]) <= max_size \/ Irreducible(chunks[i], element)
    /\ pc = "piped" =>
          \A i \in 1..Len(merged) :
              Len(merged[i]) <= max_size \/ Irreducible(merged[i], Soup)

\* The pipeline had to split an element over budget and returned several chunks.
SizeContractWitness ==
    /\ pc = "piped"
    /\ Len(_element_to_text(element)) > max_size
    /\ Len(merged) >= 2

\* C2: _chunk_element of an element without child elements whose text is longer
\* than max_size returns exactly that text, as one chunk.
OversizedLeafIsOneChunk ==
    (/\ pc = "chunked"
     /\ findChildren(element) = <<>>
     /\ Len(_element_to_text(element)) > max_size)
    => chunks = <<_element_to_text(element)>>

\* C3: _chunk_element of an element whose visible text is empty or whitespace
\* and that contains no hyperlink returns no chunk, whatever max_size.
EmptyElementHasNoChunk ==
    (/\ pc = "chunked"
     /\ \A i \in 1..Len(get_text(element)) : IsSpace(get_text(element)[i])
     /\ find_all_a_href(element) = <<>>)
    => chunks = <<>>

\* C4: the merger's output, concatenated, is its input, concatenated; and the
\* chunker lists the chunks of the elements it emits in document order, so that
\* the pipeline's output is their texts in document order too.
OrderPreserved ==
    /\ pc = "merged" => Concat(once) = Concat(vals)
    /\ pc = "chunked" => chunks = TextsInDocumentOrder(element, FittingPaths(element))
    /\ pc = "piped" =>
          Concat(merged) = Concat(TextsInDocumentOrder(Soup, FittingPaths(Soup)))

\* The pipeline returned two different chunks, of two sibling subtrees.
OrderPreservedWitness ==
    /\ pc = "piped"
    /\ Len(merged) >= 2
    /\ merged[1] # merged[2]
    /\ Cardinality(FittingPaths(Soup)) >= 2

(***************************************************************************)
(* Properties of the merger.                                               *)
(***************************************************************************)
Oversized(vs) == {i \in 1..Len(vs) : Len(vs[i]) > max_size}

\* C5: on a sequence with at most one chunk over max_size, merging the merged
\* sequence again changes nothing.
MergeIdempotent ==
    (pc = "remerged" /\ Cardinality(Oversized(vals)) <= 1) => twice = once

\* A sequence with one oversized chunk, some of whose chunks were merged.
MergeIdempotentWitness ==
    /\ pc = "remerged"
    /\ Cardinality(Oversized(vals)) = 1
    /\ Len(once) >= 2
    /\ Len(once) < Len(vals)

\* A pass over vals that flushes its accumulator before the chunks at positions
\* c + 1, c in cuts: the accumulator flushed at c, or left at the end
\* (c = Len(vals)), holds the chunks after the cut before c.
BlockStart(cuts, c) ==
    LET below == {d \in cuts : d < c}
    IN  IF below = {} THEN 1 ELSE 1 + CHOOSE d \in below : \A f \in below : f <= d
Block(cuts, c) == Concat(SubSeq(vals, BlockStart(cuts, c), c))
Flushed(cuts) ==
    [i \in 1..Cardinality(cuts) |->
        Block(cuts, CHOOSE c \in cuts : Cardinality({d \in cuts : d < c}) = i - 1)]

\* out is what a greedy forward pass returns: a chunk joins the accumulator
\* exactly when the two together stay within max_size, and otherwise the
\* accumulator is flushed and restarts as that chunk; what is left at the end is
\* flushed when it is not empty.
IsGreedyPass(out) ==
    \E cuts \in SUBSET (0..(Len(vals) - 1)) :
        /\ \A c \in cuts : Len(Block(cuts, c)) + Len(vals[c + 1]) > max_size
        /\ \A j \in 1..Len(vals) :
              (j - 1) \notin cuts =>
                  Len(Concat(SubSeq(vals, BlockStart(cuts, j), j - 1))) + Len(vals[j])
                      <= max_size
        /\ out = Flushed(cuts)
                  \o (IF Block(cuts, Len(vals)) # <<>>
                      THEN <<Block(cuts, Len(vals))>> ELSE <<>>)

\* C8: the merger is a greedy forward pass, chunks joined without separator; so
\* on chunks that are all within max_size every output chunk is within max_size
\* (and, by the pass, cannot take the first input chunk of the next output
\* chunk); ["ab","cd","ef"] with max_size 4 gives ["abcd","ef"].
MergeGreedy ==
    /\ pc = "merged" => IsGreedyPass(once)
    /\ (pc = "merged" /\ Oversized(vals) = {}) =>
          \A i \in 1..Len(once) : Len(once[i]) <= max_size
    /\ (/\ pc = "merged"
         /\ vals = << <<"a", "b">>, <<"c", "d">>, <<"e", "f">> >>
         /\ max_size = 4)
        => once = << <<"a", "b", "c", "d">>, <<"e", "f">> >>

\* The example of the claim has been merged.
MergeGreedyWitness ==
    /\ pc = "merged"
    /\ vals = << <<"a", "b">>, <<"c", "d">>, <<"e", "f">> >>
    /\ max_size = 4
    /\ Len(once) = 2

\* C10: from non-empty chunks the merger returns non-empty chunks only.
MergeEmitsNoEmptyChunk ==
    (pc = "merged" /\ \A i \in 1..Len(vals) : vals[i] # <<>>)
    => \A i \in 1..Len(once) : once[i] # <<>>

(***************************************************************************)
(* Properties of the link extractor.                                       *)
(***************************************************************************)
\* The href values of the anchors below root.
AnchorHrefs(root) ==
    {NodeAt(root, p).href[1] :
        p \in {q \in PathsOf(root) \ {<<>>} :
                 NodeAt(root, q).tag = "a" /\ NodeAt(root, q).href # <<>>}}

\* C9: the link list holds each href of at most 120 characters found on a
\* descendant anchor, once, and no other; so hrefs of 10, 200 and again 10
\* characters leave one entry of 10 characters.
LinkListIsShortHrefSet ==
    pc = "text" =>
        /\ {links[i] : i \in 1..Len(links)} = {h \in AnchorHrefs(element) : Len(h) <= 120}
        /\ \A i, j \in 1..Len(links) : links[i] = links[j] => i = j
        /\ text = VisibleText(element) \o LinksMarker \o Join(<<SP>>, links)

\* The example of the claim: anchors of 10, 200 and 10 characters.
LinkListWitness ==
    /\ pc = "text"
    /\ Len(element.kids) = 3
    /\ \A i \in 1..3 : element.kids[i].href # <<>>
    /\ [i \in 1..3 |-> Len(element.kids[i].href[1])] = <<10, 200, 10>>
    /\ links = <<Rep("a", 10)>>

====
